---- MODULE Spec2Model ----
(***************************************************************************)
(* A model of the redis client of src/src/main.rs: the command encoder     *)
(* (get_command, escape), the recursive reply decoder (parse_response,     *)
(* get_result, get_length) and the client call send_command.               *)
(*                                                                         *)
(* Text is a sequence of one-character strings.  A 64-bit signed integer   *)
(* is the record [neg, mag]: its sign and the decimal digits of its        *)
(* magnitude without leading zeros, so that the whole i64 range is         *)
(* represented exactly.  Option<T> is a sequence of at most one element.   *)
(* The target is taken to be a 64-bit one (usize and pointers of 8 bytes). *)
(***************************************************************************)
EXTENDS Integers, Sequences, FiniteSets, TLC

VARIABLES
    inbound,    \* every byte the server sends on the connection, then end-of-stream
    rpos,       \* the reader's cursor: bytes of inbound consumed so far
    wire,       \* the bytes the last send_command handed to the writer
    command,    \* the Request under encoding / of the last send_command
    encoded,    \* Option<String>: the line the last get_command returned
    last,       \* the outcome of the last parse_response / send_command
    alive,      \* FALSE once the process has aborted on a panic
    ncalls,     \* send_command calls made so far
    pc,         \* the statement of send_command the client is at ("idle": in no call)
    nsent,      \* commands written and flushed to the server so far
    ndecoded    \* replies parse_response has returned to send_command so far

vars == <<inbound, rpos, wire, command, encoded, last, alive, ncalls, pc, nsent, ndecoded>>

----------------------------------------------------------------------------
(* Characters *)

CR == "\r"
LF == "\n"
QUOTE == "\""
BACKSLASH == "\\"
CRLF == <<CR, LF>>

DigitChars == <<"0", "1", "2", "3", "4", "5", "6", "7", "8", "9">>

IsDigit(c) == \E i \in 1..10 : DigitChars[i] = c

\* char::to_digit(10) of a decimal digit
DigitVal(c) == (CHOOSE i \in 1..10 : DigitChars[i] = c) - 1

\* char::from_digit(d, 10)
DigitChar(d) == DigitChars[d + 1]

RECURSIVE Flatten(_)
Flatten(ss) == IF ss = <<>> THEN <<>> ELSE Head(ss) \o Flatten(Tail(ss))

----------------------------------------------------------------------------
(* 64-bit signed integers *)

I64(neg, mag) == [neg |-> neg, mag |-> mag]

\* i64::MAX = 9223372036854775807 and |i64::MIN| = 9223372036854775808
I64MaxMag == <<9,2,2,3,3,7,2,0,3,6,8,5,4,7,7,5,8,0,7>>
I64MinMag == <<9,2,2,3,3,7,2,0,3,6,8,5,4,7,7,5,8,0,8>>

RECURSIVE StripZeros(_)
StripZeros(ds) ==
    IF Len(ds) > 1 /\ Head(ds) = 0 THEN StripZeros(Tail(ds)) ELSE ds

RECURSIVE LexLeq(_, _)
LexLeq(a, b) ==
    IF a = <<>> THEN TRUE
    ELSE IF Head(a) # Head(b) THEN Head(a) < Head(b)
         ELSE LexLeq(Tail(a), Tail(b))

\* a <= b for magnitudes without leading zeros
MagLeq(a, b) ==
    \/ Len(a) < Len(b)
    \/ Len(a) = Len(b) /\ LexLeq(a, b)

Max(a, b) == IF a >= b THEN a ELSE b

RECURSIVE MagToNat(_)
MagToNat(ds) ==
    IF ds = <<>> THEN 0 ELSE MagToNat(SubSeq(ds, 1, Len(ds) - 1)) * 10 + ds[Len(ds)]

\* <i64 as FromStr>::from_str: an optional sign, then one or more decimal
\* digits, accumulated with checked arithmetic; None on an empty string, a
\* lone sign, a character that is no digit, or a value outside the range.
ParseI64(s) ==
    LET signed == s # <<>> /\ Head(s) \in {"+", "-"}
        neg    == s # <<>> /\ Head(s) = "-"
        body   == IF signed THEN Tail(s) ELSE s
    IN  IF s = <<>> \/ body = <<>> THEN <<>>
        ELSE IF \E i \in 1..Len(body) : ~IsDigit(body[i]) THEN <<>>
        ELSE LET mag == StripZeros([i \in 1..Len(body) |-> DigitVal(body[i])])
             IN  IF neg
                 THEN IF MagLeq(mag, I64MinMag)
                      THEN << I64(mag # <<0>>, mag) >> ELSE <<>>
                 ELSE IF MagLeq(mag, I64MaxMag)
                      THEN << I64(FALSE, mag) >> ELSE <<>>

\* a formatting that loses the sign
FormatI64Unsigned(n) == [i \in 1..Len(n.mag) |-> DigitChar(n.mag[i])]

\* <i64 as Display>::fmt
FormatI64(n) ==
    (IF n.neg THEN <<"-">> ELSE <<>>) \o [i \in 1..Len(n.mag) |-> DigitChar(n.mag[i])]

----------------------------------------------------------------------------
(* The reply decoder *)

filter_eol(x) == ~(x = CR \/ x = LF)

get_result(iter) == SelectSeq(iter, filter_eol)

\* Option<i64>: None stands for the panic of expect("Should be a number")
get_length(iter) == ParseI64(SelectSeq(iter, filter_eol))

\* a line that also ends at a carriage return
RECURSIVE LineEndAtCR(_, _)
LineEndAtCR(s, p) ==
    IF p >= Len(s) THEN Len(s)
    ELSE IF s[p + 1] \in {CR, LF} THEN p + 1 ELSE LineEndAtCR(s, p + 1)

\* BufRead::read_line at cursor pos: the bytes up to and including the next
\* line feed, or up to end-of-stream; the cursor moves past them.
RECURSIVE LineEnd(_, _)
LineEnd(s, p) ==
    IF p >= Len(s) THEN Len(s)
    ELSE IF s[p + 1] = LF THEN p + 1 ELSE LineEnd(s, p + 1)

read_line(s, pos) ==
    LET e == LineEnd(s, pos)
    IN  [line |-> SubSeq(s, pos + 1, e), pos |-> e]

(* enum Response *)
SimpleString(value) == [type |-> "SimpleString", value |-> value]
Error(value) == [type |-> "Error", value |-> value]
Integer(value) == [type |-> "Integer", value |-> value]
BulkString(length, value) == [type |-> "BulkString", length |-> length, value |-> value]
Array(length, value) == [type |-> "Array", length |-> length, value |-> value]
Unknown(resp_type, value) == [type |-> "Unknown", resp_type |-> resp_type, value |-> value]

None == <<>>
Some(x) == <<x>>

\* A finished call of parse_response: the Response and the cursor it leaves,
\* with the number of read_line calls, of parse_response calls and the
\* deepest nesting of parse_response calls it took.
Returned(resp, pos, reads, calls, depth) ==
    [st |-> "ok", resp |-> Some(resp), msg |-> "", pos |-> pos,
     reads |-> reads, calls |-> calls, depth |-> depth]

\* A call of parse_response that panicked with message msg: no Response.
Panicked(msg, pos, reads, calls, depth) ==
    [st |-> "panic", resp |-> None, msg |-> msg, pos |-> pos,
     reads |-> reads, calls |-> calls, depth |-> depth]

\* isize::MAX / size_of::<Box<Response>>() = (2^63 - 1) / 8
MaxCapacityMag == <<1,1,5,2,9,2,1,5,0,4,6,0,6,8,4,6,9,7,5>>

\* Vec::with_capacity(length as usize) panics with "capacity overflow" when
\* the capacity in bytes exceeds isize::MAX; a negative length cast to usize
\* is at least 2^63.
with_capacity_panics(length) ==
    length.neg \/ ~MagLeq(length.mag, MaxCapacityMag)

\* a loop that runs one iteration short: `for _ in 1..length`
for_range_short(length) == IF length.neg THEN 0 ELSE Max(MagToNat(length.mag) - 1, 0)

\* the number of iterations of `for _ in 0..length`
for_range(length) == IF length.neg THEN 0 ELSE MagToNat(length.mag)

\* an element put in front: vector.insert(0, x)
vector_insert_front(vector, x) == <<x>> \o vector

vector_push(vector, x) == Append(vector, x)

\* an end-of-stream arm that reports an empty raw text instead of none
none_arm_empty_text == [type |-> "Unknown", resp_type |-> <<>>, value |-> <<<<>>>>]

\* the arm of an empty line: read_line returned Ok(0) at end-of-stream
none_arm == Unknown(None, None)

\* the arm of an unrecognized first character
unknown_arm(unknown_type, chars) == Unknown(Some(unknown_type), Some(chars))

\* parse_response(reader) with the reader at cursor pos of stream s.  base is
\* the number of read_line calls the enclosing calls made before this one;
\* failAt is the index of the read_line call that the transport fails
\* (0: none fails).
RECURSIVE parse_response(_, _, _, _)
RECURSIVE parse_elements(_, _, _, _, _, _)

parse_response(s, pos, base, failAt) ==
    IF failAt = base + 1
    THEN Panicked("Can't read line from redis", pos, 1, 1, 1)
    ELSE
    LET rd    == read_line(s, pos)
        line  == rd.line
        tag   == Head(line)
        chars == Tail(line)
    IN  IF line = <<>> THEN Returned(none_arm, rd.pos, 1, 1, 1)
        ELSE IF tag = "+" THEN Returned(SimpleString(get_result(chars)), rd.pos, 1, 1, 1)
        ELSE IF tag = "-" THEN Returned(Error(get_result(chars)), rd.pos, 1, 1, 1)
        ELSE IF tag = ":" THEN
            LET value == get_length(chars)
            IN  IF value = None THEN Panicked("Should be a number", rd.pos, 1, 1, 1)
                ELSE Returned(Integer(value[1]), rd.pos, 1, 1, 1)
        ELSE IF tag = "$" THEN
            LET length == get_length(chars)
                buf    == read_line(s, rd.pos)
            IN  IF length = None THEN Panicked("Should be a number", rd.pos, 1, 1, 1)
                ELSE IF failAt = base + 2
                THEN Panicked("Can't read content for BulkString", rd.pos, 2, 1, 1)
                ELSE Returned(BulkString(length[1], get_result(buf.line)), buf.pos, 2, 1, 1)
        ELSE IF tag = "*" THEN
            LET length == get_length(chars)
            IN  IF length = None THEN Panicked("Should be a number", rd.pos, 1, 1, 1)
                ELSE IF with_capacity_panics(length[1])
                THEN Panicked("capacity overflow", rd.pos, 1, 1, 1)
                ELSE
                LET r == parse_elements(s, base, failAt, for_range(length[1]), <<>>,
                                        [pos |-> rd.pos, reads |-> 1, calls |-> 1, depth |-> 0])
                IN  IF r.st = "panic"
                    THEN Panicked(r.msg, r.pos, r.reads, r.calls, 1 + r.depth)
                    ELSE Returned(Array(length[1], r.vector), r.pos, r.reads, r.calls, 1 + r.depth)
        ELSE Returned(unknown_arm(tag, chars), rd.pos, 1, 1, 1)

\* the loop of the '*' arm with n iterations left: vector holds the elements
\* pushed so far, acc the cursor and the counts so far
parse_elements(s, base, failAt, n, vector, acc) ==
    IF n = 0 THEN [st |-> "ok", msg |-> "", vector |-> vector, pos |-> acc.pos,
                   reads |-> acc.reads, calls |-> acc.calls, depth |-> acc.depth]
    ELSE
    LET e   == parse_response(s, acc.pos, base + acc.reads, failAt)
        nxt == [pos |-> e.pos, reads |-> acc.reads + e.reads,
                calls |-> acc.calls + e.calls, depth |-> Max(acc.depth, e.depth)]
    IN  IF e.st = "panic"
        THEN [st |-> "panic", msg |-> e.msg, vector |-> vector, pos |-> nxt.pos,
              reads |-> nxt.reads, calls |-> nxt.calls, depth |-> nxt.depth]
        ELSE parse_elements(s, base, failAt, n - 1, vector_push(vector, e.resp[1]), nxt)

----------------------------------------------------------------------------
(* The command encoder *)

(* enum Request *)
Ping == [type |-> "Ping"]
Get(key) == [type |-> "Get", key |-> key]
Set(key, value) == [type |-> "Set", key |-> key, value |-> value]
Incr(key) == [type |-> "Incr", key |-> key]
Lpush(key, value) == [type |-> "Lpush", key |-> key, value |-> value]
Lrange(key, start, end) == [type |-> "Lrange", key |-> key, start |-> start, end |-> end]

\* an escape that also rewrites a line feed as backslash n
RECURSIVE escape_line_feeds(_)
escape_line_feeds(input) ==
    IF input = <<>> THEN <<>>
    ELSE (IF Head(input) = QUOTE THEN <<BACKSLASH, QUOTE>>
          ELSE IF Head(input) = LF THEN <<BACKSLASH, "n">>
          ELSE <<Head(input)>>)
         \o escape_line_feeds(Tail(input))

\* input.replace("\"", "\\\"")
RECURSIVE escape(_)
escape(input) ==
    IF input = <<>> THEN <<>>
    ELSE (IF Head(input) = QUOTE THEN <<BACKSLASH, QUOTE>> ELSE <<Head(input)>>)
         \o escape(Tail(input))

\* the piece  "{}"  of a format string, preceded by a space
Quoted(arg) == <<" ", QUOTE>> \o arg \o <<QUOTE>>

get_command(c) ==
    IF c.type = "Ping" THEN <<"P", "I", "N", "G">>
    ELSE IF c.type = "Get" THEN <<"G", "E", "T">> \o Quoted(escape(c.key))
    ELSE IF c.type = "Set"
        THEN <<"S", "E", "T">> \o Quoted(escape(c.key)) \o Quoted(escape(c.value))
    ELSE IF c.type = "Incr" THEN <<"I", "N", "C", "R">> \o Quoted(escape(c.key))
    ELSE IF c.type = "Lpush"
        THEN <<"L", "P", "U", "S", "H">> \o Quoted(escape(c.key)) \o Quoted(escape(c.value))
    ELSE <<"L", "R", "A", "N", "G", "E">> \o Quoted(c.key)
         \o Quoted(FormatI64(c.start)) \o Quoted(FormatI64(c.end))

----------------------------------------------------------------------------
(* The client call *)

\* The transport fault of one send_command: none, or the step that fails
\* (k: which read_line call, for a read).
NoFault == [op |-> "none", k |-> 0]
FailWriteCommand == [op |-> "write_command", k |-> 0]
FailWriteTerminator == [op |-> "write_terminator", k |-> 0]
FailFlush == [op |-> "flush", k |-> 0]
FailRead(k) == [op |-> "read", k |-> k]

\* The outcome of a call: st is "ok" (a Response is returned), "err" (an
\* io::Error is returned) or "panic" (the process aborts); start and pos are
\* the reader's cursor before and after; events lists the I/O steps taken and
\* failed names the step the transport failed ("none": no step failed).
Outcome(op, st, resp, msg, start, pos, reads, calls, depth, events, failed) ==
    [op |-> op, st |-> st, resp |-> resp, msg |-> msg, start |-> start, pos |-> pos,
     reads |-> reads, calls |-> calls, depth |-> depth, events |-> events,
     failed |-> failed]

NoOutcome == Outcome("none", "none", None, "", 0, 0, 0, 0, 0, <<>>, "none")

\* the messages of the two expect() calls on read_line
ReadPanics == {"Can't read line from redis", "Can't read content for BulkString"}

Reads(n) == [i \in 1..n |-> "read"]

\* send_command(command) with the reader at cursor pos of stream s, under a
\* transport fault: the outcome and the bytes handed to the writer.  A
\* write_all that fails is taken to have written none of its bytes.
send_command(s, pos, c, fault) ==
    LET req == get_command(c)
        r   == parse_response(s, pos, 0, IF fault.op = "read" THEN fault.k ELSE 0)
    IN  IF fault.op = "write_command"
        THEN [out  |-> Outcome("send_command", "err", None, "", pos, pos, 0, 0, 0,
                               <<"write_command">>, "write_command"),
              wire |-> <<>>]
        ELSE IF fault.op = "write_terminator"
        THEN [out  |-> Outcome("send_command", "err", None, "", pos, pos, 0, 0, 0,
                               <<"write_command", "write_terminator">>,
                               "write_terminator"),
              wire |-> req]
        ELSE IF fault.op = "flush"
        THEN [out  |-> Outcome("send_command", "err", None, "", pos, pos, 0, 0, 0,
                               <<"write_command", "write_terminator", "flush">>, "flush"),
              wire |-> req \o CRLF]
        ELSE [out  |-> Outcome("send_command", r.st, r.resp, r.msg, pos, r.pos,
                               r.reads, r.calls, r.depth,
                               <<"write_command", "write_terminator", "flush">>
                                   \o Reads(r.reads),
                               IF r.msg \in ReadPanics THEN "read" ELSE "none"),
              wire |-> req \o CRLF]

----------------------------------------------------------------------------
(* Inputs *)

\* the sequences over S of length at most n
RECURSIVE SeqsUpTo(_, _)
SeqsUpTo(S, n) ==
    IF n = 0 THEN {<<>>}
    ELSE LET shorter == SeqsUpTo(S, n - 1)
         IN  shorter \cup {Append(q, x) : q \in shorter, x \in S}

MaxLines == 4
MaxEdgeLines == 2
MaxReplies == 2
MaxCalls == 2

DigitText(mag) == [i \in 1..Len(mag) |-> DigitChar(mag[i])]

\* Lines of well-formed replies: streams of up to MaxLines of them give
\* whole, nested and truncated replies.
StructLines == {
    <<"+", "o", "k", CR, LF>>,
    <<":", "1", CR, LF>>,
    <<":", "2", CR, LF>>,
    <<"$", "5", CR, LF>>,
    <<"h", "e", "l", "l", "o", CR, LF>>,
    <<"*", "2", CR, LF>>,
    <<"*", "1", CR, LF>> }

\* Lines at the edges of the protocol (embedded carriage returns, malformed
\* and extreme numbers, unknown tags, missing or bare terminators): streams
\* of up to MaxEdgeLines lines of either kind.
EdgeLines == StructLines \cup {
    <<"*", "0", CR, LF>>,
    <<"-", "e", CR, "r", CR, LF>>,
    <<":", "4", "2", CR, LF>>,
    <<":", "-", "7", CR, LF>>,
    <<":", "+", "5", CR, LF>>,
    <<":", "x", CR, LF>>,
    <<":", CR, LF>>,
    <<":", "4", CR, "2", CR, LF>>,
    <<"$", "-", "1", CR, LF>>,
    <<"$", "x", CR, LF>>,
    <<"h", "e", CR, "l", "l", "o", CR, LF>>,
    <<"*", "-", "1", CR, LF>>,
    <<"*", "x", CR, LF>>,
    <<"!", "w", "e", "i", "r", "d", CR, LF>>,
    <<"+", "o", "k">>,
    <<"+", "o", "k", LF>>,
    <<":">> \o DigitText(I64MaxMag) \o CRLF,
    <<":">> \o DigitText(I64MinMag) \o CRLF,
    <<":", "-">> \o DigitText(I64MinMag) \o CRLF,
    <<"*">> \o DigitText(I64MaxMag) \o CRLF }

Streams ==
    {Flatten(ls) : ls \in SeqsUpTo(StructLines, MaxLines)}
        \cup {Flatten(ls) : ls \in SeqsUpTo(EdgeLines, MaxEdgeLines)}

\* Arguments of requests
Texts == {
    <<"k">>,
    <<"a", QUOTE, "b">>,
    <<QUOTE>>,
    <<"a", BACKSLASH>>,
    <<"a", LF, "b">> }

Indices == {I64(FALSE, <<0>>), I64(TRUE, <<1>>), I64(FALSE, <<1, 0>>)}

Requests ==
    {Ping} \cup {Get(k) : k \in Texts} \cup {Incr(k) : k \in Texts}
        \cup {Set(k, v) : k \in Texts, v \in Texts}
        \cup {Lpush(k, v) : k \in Texts, v \in Texts}
        \cup {Lrange(k, a, b) : k \in Texts, a \in Indices, b \in Indices}

\* Replies of a server, whole and one cut short
Replies == {
    <<"+", "O", "K", CR, LF>>,
    <<":", "1", CR, LF>>,
    <<"$", "5", CR, LF, "h", "e", "l", "l", "o", CR, LF>>,
    <<"*", "2", CR, LF, ":", "1", CR, LF, ":", "2", CR, LF>>,
    <<"*", "1", CR, LF, "*", "1", CR, LF, "+", "o", "k", CR, LF>>,
    <<"*", "2", CR, LF, ":", "1", CR, LF>> }

ClientStreams == {Flatten(rs) : rs \in SeqsUpTo(Replies, MaxReplies)}

ClientRequests ==
    {Ping, Get(<<"k">>), Set(<<"k">>, <<"a", QUOTE, "b">>), Incr(<<"k">>),
     Lpush(<<"k">>, <<"a", LF, "b">>),
     Lrange(<<"k">>, I64(FALSE, <<0>>), I64(TRUE, <<1>>))}

Faults ==
    {NoFault, FailWriteCommand, FailWriteTerminator, FailFlush}
        \cup {FailRead(k) : k \in 1..2}

----------------------------------------------------------------------------
(* The client: calls of send_command on one connection *)

Init ==
    /\ inbound \in ClientStreams
    /\ rpos = 0
    /\ wire = <<>>
    /\ command = Ping
    /\ encoded = None
    /\ last = NoOutcome
    /\ alive = TRUE
    /\ ncalls = 0
    /\ pc = "idle"
    /\ nsent = 0
    /\ ndecoded = 0

SendCommand(c, fault) ==
    LET r == send_command(inbound, rpos, c, fault)
    IN  /\ alive
        /\ ncalls < MaxCalls
        /\ command' = c
        /\ last' = r.out
        /\ wire' = r.wire
        /\ rpos' = r.out.pos
        /\ alive' = (r.out.st # "panic")
        /\ ncalls' = ncalls + 1
        /\ encoded' = Some(get_command(c))
        /\ nsent' = IF fault.op \in {"write_command", "write_terminator", "flush"}
                    THEN nsent ELSE nsent + 1
        /\ ndecoded' = IF r.out.st = "ok" THEN ndecoded + 1 ELSE ndecoded
        /\ UNCHANGED <<inbound, pc>>

Next == \E c \in ClientRequests, fault \in Faults : SendCommand(c, fault)

Spec == Init /\ [][Next]_vars

(* The decoder alone: parse_response applied again and again to one stream *)

InitParse ==
    /\ inbound \in Streams
    /\ rpos = 0
    /\ wire = <<>>
    /\ command = Ping
    /\ encoded = None
    /\ last = NoOutcome
    /\ alive = TRUE
    /\ ncalls = 0
    /\ pc = "idle"
    /\ nsent = 0
    /\ ndecoded = 0

ParseResponse ==
    LET r == parse_response(inbound, rpos, 0, 0)
    IN  /\ alive
        /\ last' = Outcome("parse_response", r.st, r.resp, r.msg, rpos, r.pos,
                           r.reads, r.calls, r.depth, Reads(r.reads), "none")
        /\ rpos' = r.pos
        /\ alive' = (r.st # "panic")
        /\ UNCHANGED <<inbound, wire, command, encoded, ncalls, pc, nsent, ndecoded>>

NextParse == ParseResponse

SpecParse == InitParse /\ [][NextParse]_vars

(* The encoder alone: get_command applied to one request *)

InitEncode ==
    /\ inbound = <<>>
    /\ rpos = 0
    /\ wire = <<>>
    /\ command \in Requests
    /\ encoded = None
    /\ last = NoOutcome
    /\ alive = TRUE
    /\ ncalls = 0
    /\ pc = "idle"
    /\ nsent = 0
    /\ ndecoded = 0

Encode ==
    /\ encoded = None
    /\ encoded' = Some(get_command(command))
    /\ UNCHANGED <<inbound, rpos, wire, command, last, alive, ncalls, pc, nsent, ndecoded>>

NextEncode == Encode

SpecEncode == InitEncode /\ [][NextEncode]_vars

(* The client statement by statement: send_command as the sequence of its
   four statements, each of which the transport may fail *)

StepRequests == ClientRequests \cup {Get(<<"a", BACKSLASH, CR>>)}

\* the outcome of the call in progress after one more statement: its event
\* appended; on failure the call returns Err
Stepped(out, event, ok) ==
    [out EXCEPT !.events = Append(@, event),
                !.st = IF ok THEN "running" ELSE "err",
                !.failed = IF ok THEN "none" ELSE event]

\* a send_command that writes while the reply of the call before is unread
WriteCommandPipelined(c, ok) ==
    /\ alive
    /\ pc \in {"idle", "parse"}
    /\ ncalls < MaxCalls
    /\ command' = c
    /\ encoded' = Some(get_command(c))
    /\ ncalls' = ncalls + 1
    /\ wire' = IF ok THEN get_command(c) ELSE <<>>
    /\ last' = Stepped(Outcome("send_command", "running", None, "", rpos, rpos,
                               0, 0, 0, <<>>, "none"), "write_command", ok)
    /\ pc' = IF ok THEN "write_terminator" ELSE "idle"
    /\ UNCHANGED <<inbound, rpos, alive, nsent, ndecoded>>

\* let req = get_command(command); self.writer.write_all(req.as_bytes())?;
WriteCommand(c, ok) ==
    /\ alive
    /\ pc = "idle"
    /\ ncalls < MaxCalls
    /\ command' = c
    /\ encoded' = Some(get_command(c))
    /\ ncalls' = ncalls + 1
    /\ wire' = IF ok THEN get_command(c) ELSE <<>>
    /\ last' = Stepped(Outcome("send_command", "running", None, "", rpos, rpos,
                               0, 0, 0, <<>>, "none"), "write_command", ok)
    /\ pc' = IF ok THEN "write_terminator" ELSE "idle"
    /\ UNCHANGED <<inbound, rpos, alive, nsent, ndecoded>>

\* self.writer.write_all(b"\r\n")?;
WriteTerminator(ok) ==
    /\ pc = "write_terminator"
    /\ wire' = IF ok THEN wire \o CRLF ELSE wire
    /\ last' = Stepped(last, "write_terminator", ok)
    /\ pc' = IF ok THEN "flush" ELSE "idle"
    /\ UNCHANGED <<inbound, rpos, command, encoded, alive, ncalls, nsent, ndecoded>>

\* a flush whose result is dropped: `let _ = self.writer.flush();`
FlushUnchecked(ok) ==
    /\ pc = "flush"
    /\ last' = [Stepped(last, "flush", ok) EXCEPT !.st = "running"]
    /\ pc' = "parse"
    /\ nsent' = IF ok THEN nsent + 1 ELSE nsent
    /\ UNCHANGED <<inbound, rpos, wire, command, encoded, alive, ncalls, ndecoded>>

\* self.writer.flush()?;
Flush(ok) ==
    /\ pc = "flush"
    /\ last' = Stepped(last, "flush", ok)
    /\ pc' = IF ok THEN "parse" ELSE "idle"
    /\ nsent' = IF ok THEN nsent + 1 ELSE nsent
    /\ UNCHANGED <<inbound, rpos, wire, command, encoded, alive, ncalls, ndecoded>>

\* Ok(RedisClient::parse_response(&mut self.reader))
Decode(failAt) ==
    LET r == parse_response(inbound, rpos, 0, failAt)
    IN  /\ pc = "parse"
        /\ last' = Outcome("send_command", r.st, r.resp, r.msg, rpos, r.pos,
                           r.reads, r.calls, r.depth, last.events \o Reads(r.reads),
                           IF r.msg \in ReadPanics THEN "read" ELSE last.failed)
        /\ rpos' = r.pos
        /\ alive' = (r.st # "panic")
        /\ ndecoded' = IF r.st = "ok" THEN ndecoded + 1 ELSE ndecoded
        /\ pc' = "idle"
        /\ UNCHANGED <<inbound, wire, command, encoded, ncalls, nsent>>

NextSteps ==
    \/ \E c \in StepRequests, ok \in BOOLEAN : WriteCommand(c, ok)
    \/ \E ok \in BOOLEAN : WriteTerminator(ok)
    \/ \E ok \in BOOLEAN : Flush(ok)
    \/ \E failAt \in 0..2 : Decode(failAt)

SpecSteps == Init /\ [][NextSteps]_vars

----------------------------------------------------------------------------
(* Vocabulary of the properties *)

Min(S) == CHOOSE x \in S : \A y \in S : x <= y

\* the line of the inbound stream that starts after cursor p: up to and
\* including the first line feed, or up to the end of the stream
LineAt(p) ==
    LET feeds == {e \in (p + 1)..Len(inbound) : inbound[e] = LF}
    IN  SubSeq(inbound, p + 1, IF feeds = {} THEN Len(inbound) ELSE Min(feeds))

\* a line without its trailing terminator (CR LF, or a bare LF)
StripTerminator(l) ==
    IF Len(l) >= 2 /\ l[Len(l) - 1] = CR /\ l[Len(l)] = LF THEN SubSeq(l, 1, Len(l) - 2)
    ELSE IF Len(l) >= 1 /\ l[Len(l)] = LF THEN SubSeq(l, 1, Len(l) - 1)
    ELSE l

\* the last step was a decode of a reply that started at a non-empty line
Decoded == last.op = "parse_response"
HeaderLine == LineAt(last.start)
DecodedLine == Decoded /\ HeaderLine # <<>>
HeaderTag == Head(HeaderLine)
Payload == StripTerminator(Tail(HeaderLine))
ContentStart == last.start + Len(HeaderLine)
ContentLine == LineAt(ContentStart)

\* the number of lines of the inbound stream between two cursors
LinesBetween(a, b) ==
    Cardinality({e \in (a + 1)..b : inbound[e] = LF \/ e = Len(inbound)})

KnownTags == {"+", "-", ":", "$", "*"}

\* two replies are the same tree: the same variant with the same fields
RECURSIVE SameReply(_, _)
SameReply(a, b) ==
    /\ a.type = b.type
    /\ IF a.type = "Array"
       THEN /\ a.length = b.length
            /\ Len(a.value) = Len(b.value)
            /\ \A i \in 1..Len(a.value) : SameReply(a.value[i], b.value[i])
       ELSE IF a.type = "BulkString" THEN a.length = b.length /\ a.value = b.value
       ELSE IF a.type = "Unknown" THEN a.resp_type = b.resp_type /\ a.value = b.value
       ELSE a.value = b.value

Zero == I64(FALSE, <<0>>)

----------------------------------------------------------------------------
(* The properties *)

\* C1: decoding a '*' header whose declared length is zero or negative does
\* not abort: it reads the header line alone, makes no recursive call and
\* returns Array{length, value} with the declared length and an empty value.
C1_EmptyArrayHeader ==
    (DecodedLine /\ HeaderTag = "*" /\ ParseI64(Payload) # None
        /\ (ParseI64(Payload)[1].neg \/ ParseI64(Payload)[1] = Zero))
    => /\ last.st = "ok"
       /\ SameReply(last.resp[1], Array(ParseI64(Payload)[1], <<>>))
       /\ last.reads = 1
       /\ last.calls = 1
       /\ last.pos = ContentStart

\* the quote characters of a line that no backslash immediately precedes
BareQuotes(line) ==
    {i \in 1..Len(line) : line[i] = QUOTE /\ (i = 1 \/ line[i - 1] # BACKSLASH)}

\* the number of quoted fields get_command wraps for a request
QuotedFields(c) ==
    IF c.type = "Ping" THEN 0
    ELSE IF c.type \in {"Get", "Incr"} THEN 1
    ELSE IF c.type \in {"Set", "Lpush"} THEN 2
    ELSE 3

\* C2: for every request of every variant, each double quote of a key or a
\* value is immediately preceded by a backslash in the encoded line: the only
\* quotes without a backslash before them are the two that wrap each field.
C2_QuotesEscaped ==
    encoded # None
    => Cardinality(BareQuotes(encoded[1])) <= 2 * QuotedFields(command)

\* C3: whenever a step of the exchange fails at the transport (the write of
\* the command, of the terminator, the flush, or the read of any reply line),
\* send_command returns an I/O error to its caller and the process goes on.
C3_TransportFailureIsErr ==
    (last.op = "send_command" /\ last.failed # "none")
    => (last.st = "err" /\ alive)

\* C4: decoding a line whose first character is none of + - : $ * yields
\* Unknown{Some(tag), Some(rest)}, rest being the remainder of the line
\* without its trailing terminator.
C4_UnknownTagStripped ==
    (DecodedLine /\ HeaderTag \notin KnownTags)
    => /\ last.st = "ok"
       /\ SameReply(last.resp[1], Unknown(Some(HeaderTag), Some(Payload)))

\* C5: the value of a '+' or '-' line is the text after the tag, and the
\* value of a bulk string is the text of its content line, with exactly the
\* trailing terminator removed and every other character kept in order.
C5_OnlyTerminatorRemoved ==
    /\ (DecodedLine /\ HeaderTag \in {"+", "-"})
       => (last.st = "ok" /\ last.resp[1].value = Payload)
    /\ (DecodedLine /\ HeaderTag = "$" /\ last.st = "ok")
       => last.resp[1].value = StripTerminator(ContentLine)

\* C6: decoding a '$' header that a content line follows consumes exactly
\* the two lines and returns BulkString{length, value}: length the declared
\* number whatever it is, value the content line without its terminator.
C6_BulkStringTwoLines ==
    (DecodedLine /\ HeaderTag = "$" /\ ParseI64(Payload) # None /\ ContentLine # <<>>)
    => /\ last.st = "ok"
       /\ SameReply(last.resp[1],
                    BulkString(ParseI64(Payload)[1], StripTerminator(ContentLine)))
       /\ LinesBetween(last.start, last.pos) = 2
       /\ last.reads = 2

\* every array of a reply tree with a non-negative length has that many elements
RECURSIVE ArraysSized(_)
ArraysSized(resp) ==
    resp.type = "Array"
    => /\ ~resp.length.neg => Len(resp.value) = MagToNat(resp.length.mag)
       /\ \A i \in 1..Len(resp.value) : ArraysSized(resp.value[i])

\* C7: every Array that parse_response returns with a declared length N >= 0
\* has exactly N elements, at every depth of the reply and also when the
\* stream ends before N elements were sent.
C7_ArrayLength ==
    (Decoded /\ last.st = "ok") => ArraysSized(last.resp[1])

\* a returned array of two elements whose stream ended after the first, a nested array
C7_Witness ==
    /\ Decoded /\ last.st = "ok"
    /\ last.resp[1].type = "Array"
    /\ last.resp[1].length = I64(FALSE, <<2>>)
    /\ last.resp[1].value[1].type = "Array"
    /\ Len(last.resp[1].value[1].value) = 1
    /\ SameReply(last.resp[1].value[2], Unknown(None, None))
    /\ last.pos = Len(inbound)

\* the cursor before element i of an array whose header line starts at p
RECURSIVE ElementCursor(_, _)
ElementCursor(p, i) ==
    IF i = 1 THEN p + Len(LineAt(p))
    ELSE parse_response(inbound, ElementCursor(p, i - 1), 0, 0).pos

\* element i of every array of the tree is the decode at the cursor that
\* element i-1 left, for the array whose header line starts at p
RECURSIVE InOrder(_, _)
InOrder(resp, p) ==
    resp.type = "Array"
    => \A i \in 1..Len(resp.value) :
          /\ SameReply(resp.value[i],
                       parse_response(inbound, ElementCursor(p, i), 0, 0).resp[1])
          /\ InOrder(resp.value[i], ElementCursor(p, i))

NestedExample ==
    <<"*", "1", CR, LF, "*", "1", CR, LF, "+", "o", "k", CR, LF>>

\* C8: the elements of an array are stored in the order the server sends
\* them: element i is the decode at the cursor element i-1 left, a nested
\* array consumes all its lines before the next sibling is decoded, and the
\* array ends where its last element ends; "*1 *1 +ok" decodes to
\* Array{1, [Array{1, [SimpleString{"ok"}]}]}.
C8_ElementsInOrder ==
    (Decoded /\ last.st = "ok" /\ last.resp[1].type = "Array")
    => /\ InOrder(last.resp[1], last.start)
       /\ last.pos = ElementCursor(last.start, Len(last.resp[1].value) + 1)
       /\ (inbound = NestedExample /\ last.start = 0)
          => SameReply(last.resp[1], Array(I64(FALSE, <<1>>),
                 << Array(I64(FALSE, <<1>>), << SimpleString(<<"o", "k">>) >>) >>))

\* "*2 *1 +ok :1": the nested array first, then its sibling
C8_Witness ==
    /\ Decoded /\ last.st = "ok" /\ last.start = 0 /\ last.pos = Len(inbound)
    /\ SameReply(last.resp[1], Array(I64(FALSE, <<2>>),
           << Array(I64(FALSE, <<1>>), << SimpleString(<<"o", "k">>) >>),
              Integer(I64(FALSE, <<1>>)) >>))

\* integers of the 64-bit range, the two ends among them
SampleIntegers ==
    {I64(FALSE, <<4, 2>>), I64(TRUE, <<7>>), I64(FALSE, <<1>>), I64(FALSE, <<2>>),
     I64(FALSE, I64MaxMag), I64(TRUE, I64MinMag)}

\* C9: a ':' line whose payload is the decimal text of a 64-bit integer n
\* decodes to Integer{n}; a payload that is no such number, on a ':' line or
\* as the length of a '$' or '*' header, is fatal: no Response is produced.
C9_IntegerOrFatal ==
    /\ \A n \in SampleIntegers :
          (DecodedLine /\ HeaderTag = ":" /\ Payload = FormatI64(n))
          => (last.st = "ok" /\ SameReply(last.resp[1], Integer(n)))
    /\ (DecodedLine /\ HeaderTag \in {":", "$", "*"} /\ ParseI64(Payload) = None)
       => (last.st = "panic" /\ last.resp = None /\ ~alive)

\* C10: a decode at end-of-stream returns Unknown{None, None} as a value: no
\* error, no abort, and the cursor does not move.
C10_EndOfStream ==
    (Decoded /\ last.start = Len(inbound))
    => /\ last.st = "ok"
       /\ SameReply(last.resp[1], Unknown(None, None))
       /\ last.pos = last.start
       /\ alive

\* a decode at the end of a stream whose reply was consumed before
C10_Witness ==
    /\ Decoded /\ last.start = Len(inbound) /\ Len(inbound) > 0
    /\ last.st = "ok"

\* the statements of send_command before the decode, in the order of the code
WriteSteps == <<"write_command", "write_terminator", "flush">>

\* C11: in every send_command the steps occur in the order write the line,
\* write the terminator, flush, read: no read happens before the flush has
\* succeeded, and a call whose write or flush fails returns the error
\* without reading anything from the inbound stream.
C11_WriteFlushThenRead ==
    last.op = "send_command"
    => /\ \A i \in 1..Len(last.events) :
             IF i <= 3 THEN last.events[i] = WriteSteps[i] ELSE last.events[i] = "read"
       /\ Len(last.events) > 3 => last.failed \notin {"write_command", "write_terminator", "flush"}
       /\ last.failed \in {"write_command", "write_terminator", "flush"}
          => /\ last.st = "err"
             /\ pc = "idle"
             /\ last.reads = 0
             /\ rpos = last.start
       /\ pc \in {"write_terminator", "flush", "parse"}
          => (last.st = "running" /\ rpos = last.start
                /\ Len(last.events) = (IF pc = "write_terminator" THEN 1
                                       ELSE IF pc = "flush" THEN 2 ELSE 3))

\* a second call whose flush failed, after a first call that read its reply
C11_Witness ==
    /\ ncalls = 2 /\ pc = "idle"
    /\ last.failed = "flush" /\ last.st = "err"
    /\ rpos > 0 /\ rpos = last.start

\* no call so far has failed: the process is alive and every call started
\* has flushed its command or is still writing it
NoCallFailed ==
    /\ alive
    /\ last.st \in {"none", "running", "ok"}
    /\ ncalls = nsent + (IF pc \in {"write_terminator", "flush"} THEN 1 ELSE 0)

\* C12: while no call fails there is at most one outstanding request: the
\* commands sent exceed the replies decoded by one exactly while a call awaits
\* its reply, and the command of call k+1 is written only when the decodes of
\* all k calls before have returned.
C12_OneOutstanding ==
    NoCallFailed
    => /\ nsent - ndecoded = (IF pc = "parse" THEN 1 ELSE 0)
       /\ pc \in {"write_terminator", "flush"} => ndecoded = ncalls - 1
       /\ pc = "idle" => ndecoded = ncalls

\* the second call awaits its reply, the first one decoded
C12_Witness ==
    /\ NoCallFailed
    /\ ncalls = 2 /\ pc = "parse" /\ nsent = 2 /\ ndecoded = 1

\* the decimal text of an integer: a minus sign if negative, then its digits
Decimal(n) ==
    (IF n.neg THEN <<"-">> ELSE <<>>) \o [i \in 1..Len(n.mag) |-> DigitChars[n.mag[i] + 1]]

HasPrefix(s, pre) == Len(s) >= Len(pre) /\ SubSeq(s, 1, Len(pre)) = pre
HasSuffix(s, suf) == Len(s) >= Len(suf) /\ SubSeq(s, Len(s) - Len(suf) + 1, Len(s)) = suf

LrangeOpen == <<"L", "R", "A", "N", "G", "E", " ", QUOTE>>

IsLrange == encoded # None /\ command.type = "Lrange"

\* C13 as stated: the encoded Lrange line is LRANGE, the key wrapped in
\* double quotes, then start and end as decimal text without quotes.
C13_IntegersUnquoted ==
    IsLrange
    => /\ HasPrefix(encoded[1], LrangeOpen)
       /\ HasSuffix(encoded[1],
              <<QUOTE, " ">> \o Decimal(command.start) \o <<" ">> \o Decimal(command.end))

\* C13 as amended: the encoded Lrange line is LRANGE, the key wrapped in
\* double quotes, then start and end as decimal text (a leading minus sign
\* for a negative value), each wrapped in double quotes like the key.
C13_IntegersQuoted ==
    IsLrange
    => LET tail == <<QUOTE, " ", QUOTE>> \o Decimal(command.start)
                       \o <<QUOTE, " ", QUOTE>> \o Decimal(command.end) \o <<QUOTE>>
       IN  /\ HasPrefix(encoded[1], LrangeOpen)
           /\ HasSuffix(encoded[1], tail)
           /\ Len(encoded[1]) >= Len(LrangeOpen) + Len(command.key) + Len(tail)

\* an encoded Lrange with a two-digit start and a negative end
C13_Witness ==
    /\ IsLrange
    /\ command.start = I64(FALSE, <<1, 0>>)
    /\ command.end = I64(TRUE, <<1>>)

\* the number of occurrences of character ch in s
Count(s, ch) == Cardinality({i \in 1..Len(s) : s[i] = ch})

NotQuote(ch) == ch # QUOTE
NotQuoteOrBackslash(ch) == ch \notin {QUOTE, BACKSLASH}

\* the text arguments of a request, one after the other
ArgText(c) ==
    IF c.type = "Ping" THEN <<>>
    ELSE IF c.type \in {"Set", "Lpush"} THEN c.key \o c.value
    ELSE c.key

\* a request's line without any quoting: the verb and the arguments as given
Unquoted(c) ==
    IF c.type = "Ping" THEN <<"P", "I", "N", "G">>
    ELSE IF c.type = "Get" THEN <<"G", "E", "T", " ">> \o c.key
    ELSE IF c.type = "Incr" THEN <<"I", "N", "C", "R", " ">> \o c.key
    ELSE IF c.type = "Set" THEN <<"S", "E", "T", " ">> \o c.key \o <<" ">> \o c.value
    ELSE IF c.type = "Lpush"
        THEN <<"L", "P", "U", "S", "H", " ">> \o c.key \o <<" ">> \o c.value
    ELSE <<"L", "R", "A", "N", "G", "E", " ">> \o c.key \o <<" ">> \o Decimal(c.start)
             \o <<" ">> \o Decimal(c.end)

\* a occurs in b as a subsequence, in order
RECURSIVE IsSubsequence(_, _)
IsSubsequence(a, b) ==
    IF a = <<>> THEN TRUE
    ELSE IF b = <<>> THEN FALSE
    ELSE IF Head(a) = Head(b) THEN IsSubsequence(Tail(a), Tail(b))
    ELSE IsSubsequence(a, Tail(b))

\* the call in progress or just finished has written its line and terminator
TerminatorWritten ==
    /\ last.op = "send_command"
    /\ pc \in {"flush", "parse"} \/ (pc = "idle" /\ Len(last.events) >= 3)

\* C14: get_command escapes nothing but double quotes: the characters of the
\* arguments other than the quote, backslash, carriage return and line feed
\* among them, appear unchanged and in order in the encoded line, no backslash
\* is added but before a quote, and the bytes written by one send_command are
\* the line and one terminator, so they hold one line feed more than the
\* arguments do.
C14_OnlyQuotesEscaped ==
    TerminatorWritten
    => /\ SelectSeq(encoded[1], NotQuoteOrBackslash)
              = SelectSeq(Unquoted(command), NotQuoteOrBackslash)
       /\ IsSubsequence(SelectSeq(ArgText(command), NotQuote), encoded[1])
       /\ Count(encoded[1], BACKSLASH) >= Count(ArgText(command), BACKSLASH)
       /\ Count(encoded[1], BACKSLASH)
              <= Count(ArgText(command), BACKSLASH) + Count(ArgText(command), QUOTE)
       /\ wire = encoded[1] \o CRLF
       /\ Count(wire, LF) = 1 + Count(ArgText(command), LF)
       /\ Count(wire, CR) = 1 + Count(ArgText(command), CR)

\* a flushed Lpush whose value holds a line feed: two line feeds on the wire
C14_Witness ==
    /\ TerminatorWritten /\ pc = "parse"
    /\ command = Lpush(<<"k">>, <<"a", LF, "b">>)
    /\ Count(wire, LF) = 2

Terminated(l) == Len(l) >= 2 /\ l[Len(l) - 1] = CR /\ l[Len(l)] = LF

\* The cursor after the well-formed reply that starts at cursor p, or -1 if
\* none starts there: a '+', '-' or ':' line; a '$' header and one content
\* line; a '*' header of length N >= 0 and N well-formed replies.
RECURSIVE ReplyEnd(_)
RECURSIVE ElementsEnd(_, _)

ReplyEnd(p) ==
    LET l    == LineAt(p)
        q    == p + Len(l)
        body == StripTerminator(Tail(l))
        n    == ParseI64(body)
    IN  IF l = <<>> \/ ~Terminated(l) THEN -1
        ELSE IF l[1] \in {"+", "-"} THEN q
        ELSE IF l[1] = ":" THEN (IF n = None THEN -1 ELSE q)
        ELSE IF l[1] = "$"
            THEN (IF n = None \/ ~Terminated(LineAt(q)) THEN -1 ELSE q + Len(LineAt(q)))
        ELSE IF l[1] = "*"
            THEN (IF n = None THEN -1
                  ELSE IF n[1].neg \/ Len(n[1].mag) > 1 THEN -1
                  ELSE ElementsEnd(q, n[1].mag[1]))
        ELSE -1

ElementsEnd(q, n) ==
    IF n = 0 THEN q
    ELSE LET e == ReplyEnd(q)
         IN  IF e = -1 THEN -1 ELSE ElementsEnd(e, n - 1)

\* the cursor after the k-th reply of the inbound stream, or -1 if the first
\* k replies are not all well-formed
RECURSIVE Boundary(_)
Boundary(k) ==
    IF k = 0 THEN 0
    ELSE LET b == Boundary(k - 1)
         IN  IF b = -1 THEN -1 ELSE ReplyEnd(b)

\* C15: when the server's replies are well-formed, each decode consumes
\* exactly the lines of one reply: the cursor stands at the end of the k-th
\* reply once k decodes have returned, it never moves back, and the k-th
\* decode returns the decoding of the k-th reply.
C15_FramingPreserved ==
    (alive /\ Boundary(ndecoded) # -1)
    => /\ rpos = Boundary(ndecoded)
       /\ last.pos >= last.start
       /\ (ndecoded >= 1 /\ pc = "idle" /\ last.st = "ok")
          => /\ last.start = Boundary(ndecoded - 1)
             /\ last.pos = Boundary(ndecoded)
             /\ SameReply(last.resp[1],
                    parse_response(inbound, Boundary(ndecoded - 1), 0, 0).resp[1])

\* the second decode returned the second reply, an array after a bulk string
C15_Witness ==
    /\ alive /\ ndecoded = 2 /\ pc = "idle" /\ last.st = "ok"
    /\ Boundary(1) = 11 /\ Boundary(2) = 23 /\ rpos = 23
    /\ SameReply(last.resp[1], Array(I64(FALSE, <<2>>),
           << Integer(I64(FALSE, <<1>>)), Integer(I64(FALSE, <<2>>)) >>))

\* the length an array header declares
Declared == ParseI64(Payload)[1]

\* no more elements than this need a look: an element that starts before the
\* end of the stream consumes at least one of the lines after the header
ElementsToSee ==
    IF Len(Declared.mag) > 2 THEN LinesBetween(last.start, Len(inbound))
    ELSE Min({MagToNat(Declared.mag), LinesBetween(last.start, Len(inbound))})

\* the elements of the decoded array that start before the end of the stream
SentBefore == {i \in 1..ElementsToSee : ElementCursor(last.start, i) < Len(inbound)}

\* the decoded line is an array header of length N >= 0, the stream ends
\* before the N-th element starts, and the elements sent decode
TruncatedArray ==
    /\ DecodedLine /\ HeaderTag = "*" /\ ParseI64(Payload) # None
    /\ ~Declared.neg
    /\ \E i \in 1..ElementsToSee : ElementCursor(last.start, i) = Len(inbound)
    /\ \A i \in SentBefore :
          parse_response(inbound, ElementCursor(last.start, i), 0, 0).st = "ok"

\* the decoded line is a '$' header and the stream ends right after it
TruncatedBulkString ==
    /\ DecodedLine /\ HeaderTag = "$" /\ ParseI64(Payload) # None
    /\ ContentStart = Len(inbound)

\* C16: a reply truncated by end-of-stream is returned as a value: an array
\* of declared length N >= 0 whose stream ends after k elements is returned
\* as Array{N, value} with the k decoded elements followed by N-k
\* Unknown{None, None}; a '$' header at the end of the stream is returned as
\* BulkString{length, ""}.
C16_TruncatedReplyIsValue ==
    /\ TruncatedArray
       => /\ last.st = "ok" /\ alive
          /\ last.resp[1].type = "Array"
          /\ last.resp[1].length = Declared
          /\ Len(last.resp[1].value) = MagToNat(Declared.mag)
          /\ \A i \in 1..Len(last.resp[1].value) :
                SameReply(last.resp[1].value[i],
                    IF i \in SentBefore
                    THEN parse_response(inbound, ElementCursor(last.start, i), 0, 0).resp[1]
                    ELSE Unknown(None, None))
          /\ last.pos = Len(inbound)
    /\ TruncatedBulkString
       => /\ last.st = "ok" /\ alive
          /\ SameReply(last.resp[1], BulkString(Declared, <<>>))
          /\ last.pos = Len(inbound)

\* the number of lines of the inbound stream that start with '*'
StarLines ==
    Cardinality({p \in 0..(Len(inbound) - 1) :
                    (p = 0 \/ inbound[p] = LF) /\ inbound[p + 1] = "*"})

\* the number of replies of a reply tree, the root included
RECURSIVE Nodes(_)
RECURSIVE NodesOf(_)
Nodes(resp) == IF resp.type = "Array" THEN 1 + NodesOf(resp.value) ELSE 1
NodesOf(value) == IF value = <<>> THEN 0 ELSE Nodes(Head(value)) + NodesOf(Tail(value))

\* C17: every decode of a finite stream finishes, returning a reply or
\* aborting on a malformed number; every call of parse_response reads at
\* least one line or observes end-of-stream, an array header of length N
\* causes exactly N recursive calls, and the recursion is never deeper than
\* the number of '*' lines of the stream.
C17_DecodeTerminates ==
    Decoded
    => /\ last.st = "ok" \/ (last.st = "panic" /\ last.msg = "Should be a number")
       /\ last.reads >= last.calls
       /\ last.st = "ok"
          => /\ ArraysSized(last.resp[1])
             /\ last.calls = Nodes(last.resp[1])
       /\ last.depth - 1 <= StarLines

====
